---------------------------- MODULE Spec2Model ----------------------------
(***************************************************************************)
(* A model of the Amass network utilities (amass/utils/network.go) and of  *)
(* the web-archive crawler and name cleaner of the sources package.        *)
(*                                                                         *)
(* Three specifications share the module's variables:                      *)
(*   Spec     the crawler: crawl's coordinating loop, the response         *)
(*            handlers, the timer, the cancel goroutine and the service;   *)
(*   NetSpec  NetHosts (one action per loop iteration), RangeHosts and     *)
(*            CIDRSubset applied to inputs drawn from bounded sets;        *)
(*   StrSpec  cleanName and IPv6NibbleFormat applied to bounded strings.   *)
(***************************************************************************)
EXTENDS Integers, Sequences, FiniteSets, TLC

VARIABLES
    \* ---- network utilities ----
    net_op,      \* which function is being called
    nh_cidr,     \* NetHosts: the cidr parameter
    nh_ip,       \* NetHosts: the loop variable ip
    nh_ips,      \* NetHosts: the slice ips
    nh_pc,       \* NetHosts: "idle", "loop", "done" or "panic"
    nh_ret,      \* NetHosts: the returned slice
    rh_start,    \* RangeHosts: parameter start
    rh_end,      \* RangeHosts: parameter end
    rh_pc,       \* RangeHosts: "idle", "call" or "done"
    rh_ret,      \* RangeHosts: the returned slice
    cs_cidr,     \* CIDRSubset: parameter cidr
    cs_addr,     \* CIDRSubset: parameter addr, already parsed
    cs_num,      \* CIDRSubset: parameter num
    cs_pc,       \* CIDRSubset: "idle", "call" or "done"
    cs_ret,      \* CIDRSubset: the returned slice
    \* ---- string helpers ----
    str_op,      \* which function is being called
    cn_in,       \* cleanName: the parameter name
    cn_pc,       \* cleanName: "idle", "call" or "done"
    cn_ret,      \* cleanName: the returned string
    nf_in,       \* IPv6NibbleFormat: the parameter ip
    nf_pc,       \* IPv6NibbleFormat: "idle", "call" or "done"
    nf_ret,      \* IPv6NibbleFormat: the returned string
    \* ---- crawl ----
    pc,          \* crawl: "idle", "start", "loop" or "returned"
    err,         \* crawl: the returned error, "nil" or "error"
    results,     \* crawl: the slice results
    links,       \* the buffered channel links
    names,       \* the buffered channel names
    linksFilter, \* the set of links already sent to the queue
    filter,      \* the set of response URLs already handled
    filterMutex, \* the handler holding filterMutex, 0 when it is free
    pending,     \* the fetch queue: how often each URL is waiting in it
    sent,        \* how often each URL has been accepted by the fetch queue
    hpc,         \* per response handler: "idle", "lock", "name" or "link"
    hurl,        \* per response handler: the URL of its response
    hwork,       \* per response handler: the matching anchors still to send
    timer,       \* the timer t: "none", "armed", "fired" or "taken"
    cancelPc,    \* the goroutine of q.Cancel(): "none", "spawned", "waiting", "done"
    qClosed,     \* the queue no longer accepts commands
    qDone,       \* the channel q.Done() is closed
    quit         \* the channel service.Quit() is closed

netVars == <<net_op, nh_cidr, nh_ip, nh_ips, nh_pc, nh_ret, rh_start, rh_end,
             rh_pc, rh_ret, cs_cidr, cs_addr, cs_num, cs_pc, cs_ret>>

strVars == <<str_op, cn_in, cn_pc, cn_ret, nf_in, nf_pc, nf_ret>>

crawlVars == <<pc, err, results, links, names, linksFilter, filter, filterMutex,
               pending, sent, hpc, hurl, hwork, timer, cancelPc, qClosed, qDone,
               quit>>

vars == <<netVars, strVars, crawlVars>>

(***************************************************************************)
(* Bounds.  An address is a sequence of AddrLen bytes, most significant    *)
(* first, as a net.IP is.  The source's bytes have 8 bits and its          *)
(* addresses 4 or 16 bytes; the model keeps the byte-wise arithmetic and   *)
(* scales both down so that carries, borrows and the wrap-around of the    *)
(* whole address are reached.                                              *)
(***************************************************************************)
AddrLen == 2
ByteBits == 2
MaxNum == 5

ByteMod == 2 ^ ByteBits
AddrBits == AddrLen * ByteBits
Byte == 0 .. (ByteMod - 1)
Addr == [1 .. AddrLen -> Byte]
NilIP == << >>
\* An address of a length that is neither family's: To16 returns nil for it.
BadIP == << 0 >>
Prefixes == 0 .. AddrBits
CIDRs == [IP : Addr, ones : Prefixes]
NoCIDR == [IP |-> NilIP, ones |-> 0]

Min(a, b) == IF a < b THEN a ELSE b
Max(a, b) == IF a > b THEN a ELSE b
Range(s) == {s[i] : i \in 1 .. Len(s)}

(***************************************************************************)
(* net.IP helpers used by the functions under study.                       *)
(***************************************************************************)
\* The number of leading one bits the mask of a /ones block has in byte i.
MaskOnes(ones, i) == Max(0, Min(ByteBits, ones - (i - 1) * ByteBits))

\* b & m for the mask byte m with k leading ones: the low bits are cleared.
AndMask(b, k) == b - (b % (2 ^ (ByteBits - k)))

\* ip.Mask(cidr.Mask)
Mask(ip, ones) == [i \in 1 .. Len(ip) |-> AndMask(ip[i], MaskOnes(ones, i))]

\* ip.To16(): nil unless the address has a valid length.
To16(ip) == IF Len(ip) = AddrLen THEN ip ELSE NilIP

\* net.ParseIP(ip.String()): a fresh copy of a valid address, nil otherwise.
CopyIP(ip) == IF Len(ip) = AddrLen THEN [i \in 1 .. AddrLen |-> ip[i]] ELSE NilIP

\* bytes.Compare(a, b): -1, 0 or 1, lexicographic on the bytes.
RECURSIVE CompareFrom(_, _, _)
CompareFrom(a, b, i) ==
    IF i > Len(a) \/ i > Len(b)
    THEN (IF Len(a) < Len(b) THEN -1 ELSE IF Len(a) > Len(b) THEN 1 ELSE 0)
    ELSE IF a[i] < b[i] THEN -1
    ELSE IF a[i] > b[i] THEN 1
    ELSE CompareFrom(a, b, i + 1)

BytesCompare(a, b) == CompareFrom(a, b, 1)

\* cidr.Contains(ip): same length and equal to the network under the mask.
Contains(cidr, ip) ==
    /\ Len(ip) = Len(cidr.IP)
    /\ \A i \in 1 .. Len(ip) :
          AndMask(cidr.IP[i], MaskOnes(cidr.ones, i))
              = AndMask(ip[i], MaskOnes(cidr.ones, i))

\* addrInc: add one to the last byte and carry while the byte wraps to 0.
RECURSIVE AddrIncFrom(_, _)
AddrIncFrom(ip, j) ==
    IF j < 1 THEN ip
    ELSE LET b == (ip[j] + 1) % ByteMod
             ip2 == [ip EXCEPT ![j] = b]
         IN  IF b > 0 THEN ip2 ELSE AddrIncFrom(ip2, j - 1)

addrInc(ip) == AddrIncFrom(ip, Len(ip))

\* addrDec: subtract one from the last non-zero byte, wrapping the zero
\* bytes below it to the highest byte value.
RECURSIVE AddrDecFrom(_, _)
AddrDecFrom(ip, j) ==
    IF j < 1 THEN ip
    ELSE IF ip[j] > 0 THEN [ip EXCEPT ![j] = ip[j] - 1]
    ELSE AddrDecFrom([ip EXCEPT ![j] = ByteMod - 1], j - 1)

addrDec(ip) == AddrDecFrom(ip, Len(ip))

(***************************************************************************)
(* RangeHosts                                                              *)
(***************************************************************************)
\* The for loop of RangeHosts: from ip up to, not including, stop.
RECURSIVE RangeLoop(_, _, _)
RangeLoop(ip, stop, ips) ==
    IF ip = stop THEN ips
    ELSE RangeLoop(addrInc(ip), stop,
                   IF CopyIP(ip) # NilIP THEN Append(ips, CopyIP(ip)) ELSE ips)

RangeHosts(start, end) ==
    IF start = NilIP \/ end = NilIP THEN << >>
    ELSE IF To16(start) = NilIP \/ To16(end) = NilIP THEN << >>
    ELSE IF BytesCompare(To16(end), To16(start)) <= 0 THEN << >>
    ELSE RangeLoop(CopyIP(start), addrInc(CopyIP(end)), << >>)

(***************************************************************************)
(* CIDRSubset                                                              *)
(***************************************************************************)
\* "Get the first address": up to offset steps down, one step back up as
\* soon as a step leaves the block.
RECURSIVE WalkDown(_, _, _, _)
WalkDown(cidr, first, i, offset) ==
    IF i >= offset THEN first
    ELSE LET f == addrDec(first)
         IN  IF ~Contains(cidr, f) THEN addrInc(f)
             ELSE WalkDown(cidr, f, i + 1, offset)

\* WalkUp without the step back: the address that left the block is kept.
RECURSIVE WalkUpNoRevert(_, _, _, _)
WalkUpNoRevert(cidr, last, i, offset) ==
    IF i >= offset THEN last
    ELSE LET l == addrInc(last)
         IN  IF ~Contains(cidr, l) THEN l
             ELSE WalkUpNoRevert(cidr, l, i + 1, offset)

\* "Get the last address": the same walk upwards.
RECURSIVE WalkUp(_, _, _, _)
WalkUp(cidr, last, i, offset) ==
    IF i >= offset THEN last
    ELSE LET l == addrInc(last)
         IN  IF ~Contains(cidr, l) THEN addrDec(l)
             ELSE WalkUp(cidr, l, i + 1, offset)

CIDRSubset(cidr, addr, num) ==
    IF ~Contains(cidr, addr) THEN << addr >>
    ELSE LET offset == num \div 2
             first == WalkDown(cidr, addr, 0, offset)
             last == WalkUp(cidr, addr, 0, offset)
         IN  IF first = last THEN << first >>
             ELSE RangeHosts(first, last)

(***************************************************************************)
(* The network specification                                               *)
(***************************************************************************)
\* The NetHosts loop cannot be left to run for ever in a block it never
\* leaves: the model stops it one iteration after the address has come back
\* to where it started.
MaxIter == (2 ^ AddrBits) + 1

NetIdle ==
    /\ nh_cidr = NoCIDR /\ nh_ip = NilIP /\ nh_ips = << >>
    /\ nh_pc = "idle" /\ nh_ret = << >>

RangeIdle ==
    /\ rh_start = NilIP /\ rh_end = NilIP /\ rh_pc = "idle" /\ rh_ret = << >>

SubsetIdle ==
    /\ cs_cidr = NoCIDR /\ cs_addr = NilIP /\ cs_num = 0
    /\ cs_pc = "idle" /\ cs_ret = << >>

(***************************************************************************)
(* The crawler's bounds.  URLs are numbered, the seed being 0.  The        *)
(* channels links and names hold 50 strings in the source; the model       *)
(* scales them to ChanCap so that a page can fill them.                    *)
(***************************************************************************)
MaxURLs == 2
MaxHandlers == 1
MaxAnchors == 2
ChanCap == 1

URLs == 0 .. (MaxURLs - 1)
SeedURL == 0
Handlers == 1 .. MaxHandlers

\* re.FindString(u.String()): the name a matching URL yields.  URLs that
\* differ only outside the matched host name yield the same name.
NameOf(u) == u % 2

RECURSIVE SeqsUpTo(_, _)
SeqsUpTo(S, n) ==
    IF n = 0 THEN {<< >>}
    ELSE SeqsUpTo(S, n - 1) \cup
         {Append(s, x) : s \in {t \in SeqsUpTo(S, n - 1) : Len(t) = n - 1}, x \in S}

\* What a page can hold: its a[href] targets that match the domain, in
\* document order (an anchor that does not match is skipped without effect).
Pages == SeqsUpTo(URLs, MaxAnchors)

CrawlNone ==
    /\ pc = "idle" /\ err = "nil" /\ results = << >>
    /\ links = << >> /\ names = << >>
    /\ linksFilter = {} /\ filter = {} /\ filterMutex = 0
    /\ pending = [u \in URLs |-> 0] /\ sent = [u \in URLs |-> 0]
    /\ hpc = [h \in Handlers |-> "idle"]
    /\ hurl = [h \in Handlers |-> SeedURL]
    /\ hwork = [h \in Handlers |-> << >>]
    /\ timer = "none" /\ cancelPc = "none"
    /\ qClosed = FALSE /\ qDone = FALSE /\ quit = FALSE

NetNone == net_op = "none" /\ NetIdle /\ RangeIdle /\ SubsetIdle

StrNone ==
    /\ str_op = "none"
    /\ cn_in = << >> /\ cn_pc = "idle" /\ cn_ret = << >>
    /\ nf_in = << >> /\ nf_pc = "idle" /\ nf_ret = << >>

\* NetHosts(cidr) has been called: ip := cidr.IP.Mask(cidr.Mask).
InitNetHosts ==
    /\ net_op = "NetHosts"
    /\ nh_cidr \in CIDRs
    /\ nh_ip = Mask(nh_cidr.IP, nh_cidr.ones)
    /\ nh_ips = << >>
    /\ nh_pc = "loop"
    /\ nh_ret = << >>
    /\ RangeIdle /\ SubsetIdle /\ StrNone /\ CrawlNone

InitRangeHosts ==
    /\ net_op = "RangeHosts"
    /\ rh_start \in Addr \cup {NilIP, BadIP}
    /\ rh_end \in Addr \cup {NilIP, BadIP}
    /\ rh_pc = "call"
    /\ rh_ret = << >>
    /\ NetIdle /\ SubsetIdle /\ StrNone /\ CrawlNone

InitCIDRSubset ==
    /\ net_op = "CIDRSubset"
    /\ cs_cidr \in CIDRs
    /\ cs_addr \in Addr
    /\ cs_num \in 0 .. MaxNum
    /\ cs_pc = "call"
    /\ cs_ret = << >>
    /\ NetIdle /\ RangeIdle /\ StrNone /\ CrawlNone

\* One iteration of the loop of NetHosts: the condition holds, the body
\* appends a copy of ip, the post statement increments ip in place.
NetHostsIter ==
    /\ nh_pc = "loop"
    /\ Contains(nh_cidr, nh_ip)
    /\ Len(nh_ips) < MaxIter
    /\ nh_ips' = Append(nh_ips, CopyIP(nh_ip))
    /\ nh_ip' = addrInc(nh_ip)
    /\ UNCHANGED <<net_op, nh_cidr, nh_pc, nh_ret>>
    /\ UNCHANGED <<rh_start, rh_end, rh_pc, rh_ret>>
    /\ UNCHANGED <<cs_cidr, cs_addr, cs_num, cs_pc, cs_ret>>
    /\ UNCHANGED <<strVars, crawlVars>>

\* The loop condition fails: return ips[1 : len(ips)-1], which panics with
\* "slice bounds out of range" when 1 > len(ips)-1.
NetHostsReturn ==
    /\ nh_pc = "loop"
    /\ ~Contains(nh_cidr, nh_ip)
    /\ IF Len(nh_ips) - 1 >= 1
       THEN /\ nh_pc' = "done"
            /\ nh_ret' = SubSeq(nh_ips, 2, Len(nh_ips) - 1)
       ELSE /\ nh_pc' = "panic"
            /\ nh_ret' = nh_ret
    /\ UNCHANGED <<net_op, nh_cidr, nh_ip, nh_ips>>
    /\ UNCHANGED <<rh_start, rh_end, rh_pc, rh_ret>>
    /\ UNCHANGED <<cs_cidr, cs_addr, cs_num, cs_pc, cs_ret>>
    /\ UNCHANGED <<strVars, crawlVars>>

RangeHostsCall ==
    /\ rh_pc = "call"
    /\ rh_ret' = RangeHosts(rh_start, rh_end)
    /\ rh_pc' = "done"
    /\ UNCHANGED <<net_op, rh_start, rh_end>>
    /\ UNCHANGED <<nh_cidr, nh_ip, nh_ips, nh_pc, nh_ret>>
    /\ UNCHANGED <<cs_cidr, cs_addr, cs_num, cs_pc, cs_ret>>
    /\ UNCHANGED <<strVars, crawlVars>>

CIDRSubsetCall ==
    /\ cs_pc = "call"
    /\ cs_ret' = CIDRSubset(cs_cidr, cs_addr, cs_num)
    /\ cs_pc' = "done"
    /\ UNCHANGED <<net_op, cs_cidr, cs_addr, cs_num>>
    /\ UNCHANGED <<nh_cidr, nh_ip, nh_ips, nh_pc, nh_ret>>
    /\ UNCHANGED <<rh_start, rh_end, rh_pc, rh_ret>>
    /\ UNCHANGED <<strVars, crawlVars>>

NetInit == InitNetHosts \/ InitRangeHosts \/ InitCIDRSubset

NetNext == NetHostsIter \/ NetHostsReturn \/ RangeHostsCall \/ CIDRSubsetCall

NetSpec == NetInit /\ [][NetNext]_vars

(***************************************************************************)
(* Properties of the network utilities.  Addresses are compared as the     *)
(* numbers their bytes spell, most significant byte first.                 *)
(***************************************************************************)
NumAddrs == 2 ^ AddrBits

RECURSIVE ToIntFrom(_, _, _)
ToIntFrom(ip, i, acc) ==
    IF i > Len(ip) THEN acc ELSE ToIntFrom(ip, i + 1, acc * ByteMod + ip[i])

ToInt(ip) == ToIntFrom(ip, 1, 0)

IntToAddr(n) == [i \in 1 .. AddrLen |-> (n \div (ByteMod ^ (AddrLen - i))) % ByteMod]

\* The addresses numbered lo .. hi in ascending order (empty when hi < lo).
AddrsFromTo(lo, hi) == [i \in 1 .. Max(0, hi - lo + 1) |-> IntToAddr(lo + i - 1)]

HostBits(cidr) == AddrBits - cidr.ones
BlockFirst(cidr) == ToInt(Mask(cidr.IP, cidr.ones))
BlockLast(cidr) == BlockFirst(cidr) + (2 ^ HostBits(cidr)) - 1

\* C3: whenever NetHosts has ended, it has returned (not faulted), and what
\* it returned is, in ascending order, every address of the block except the
\* network and the broadcast address: 2^hostBits - 2 addresses when
\* hostBits >= 2, none for the /31 and /32 analogues (hostBits 1 and 0).
C3_NetHostsUsableHosts ==
    nh_pc \in {"done", "panic"} =>
        /\ nh_pc = "done"
        /\ nh_ret = AddrsFromTo(BlockFirst(nh_cidr) + 1, BlockLast(nh_cidr) - 1)
        /\ (HostBits(nh_cidr) >= 2 => Len(nh_ret) = (2 ^ HostBits(nh_cidr)) - 2)
        /\ (HostBits(nh_cidr) <= 1 => nh_ret = << >>)

\* C10: NetHosts terminates for every prefix length.  The loop's future is
\* fixed by ip alone, so it terminates exactly if it never again stands, with
\* its condition true, at an address it has already appended.
C10_NetHostsTerminates ==
    (nh_pc = "loop" /\ Contains(nh_cidr, nh_ip)) => nh_ip \notin Range(nh_ips)

\* C5: RangeHosts(start, end) returns the end - start + 1 addresses from
\* start through end in ascending order when end is strictly greater than
\* start, and the empty sequence when an endpoint is absent or unusable or
\* end <= start.
C5_RangeHostsInclusive ==
    rh_pc = "done" =>
        IF /\ To16(rh_start) # NilIP /\ To16(rh_end) # NilIP
           /\ ToInt(rh_end) > ToInt(rh_start)
        THEN /\ rh_ret = AddrsFromTo(ToInt(rh_start), ToInt(rh_end))
             /\ Len(rh_ret) = ToInt(rh_end) - ToInt(rh_start) + 1
        ELSE rh_ret = << >>

\* The clamped walk the specification describes: num/2 steps down and up
\* from the center, stopping at the block's first and last address.
ClampedLo(cidr, addr, num) == Max(BlockFirst(cidr), ToInt(addr) - (num \div 2))
ClampedHi(cidr, addr, num) == Min(BlockLast(cidr), ToInt(addr) + (num \div 2))

AllInBlock(cidr, ips) == \A i \in 1 .. Len(ips) : Contains(cidr, ips[i])

MaxStrLen == 4

\* The characters the inputs are drawn from: token characters in both
\* cases, the two characters cleanName trims, a space and a plain letter.
Alphabet == {"2", "0", "F", "-", ".", " ", "x"}

RECURSIVE StrsOfLen(_)
StrsOfLen(n) ==
    IF n = 0 THEN {<< >>}
    ELSE {Append(s, c) : s \in StrsOfLen(n - 1), c \in Alphabet}

Strs == UNION {StrsOfLen(n) : n \in 0 .. MaxStrLen}

\* s[from:] of the source, with from counted from 0.
SliceFrom(s, from) == SubSeq(s, from + 1, Len(s))

\* strings.ToLower, on the characters of the model.
LowerChar(c) == IF c = "F" THEN "f" ELSE c

ToLower(s) == [i \in 1 .. Len(s) |-> LowerChar(s[i])]

\* strings.TrimLeft / TrimRight / Trim with a one-character cutset.
RECURSIVE TrimLeft(_, _)
TrimLeft(s, c) ==
    IF Len(s) > 0 /\ s[1] = c THEN TrimLeft(Tail(s), c) ELSE s

RECURSIVE TrimRight(_, _)
TrimRight(s, c) ==
    IF Len(s) > 0 /\ s[Len(s)] = c THEN TrimRight(SubSeq(s, 1, Len(s) - 1), c) ELSE s

Trim(s, c) == TrimRight(TrimLeft(s, c), c)

\* strings.TrimSpace, the space being the model's only white space.
TrimSpace(s) == Trim(s, " ")

\* The alternatives of nameStripRE.
nameStripTokens ==
    { <<"2", "0">>, <<"2", "5">>, <<"2", "b">>, <<"2", "f">>,
      <<"3", "d">>, <<"3", "a">>, <<"4", "0">> }

\* Where the greedy match of ^(token)+ that has reached offset k ends.
RECURSIVE MatchEnd(_, _)
MatchEnd(s, k) ==
    IF Len(s) >= k + 2 /\ <<s[k + 1], s[k + 2]>> \in nameStripTokens
    THEN MatchEnd(s, k + 2)
    ELSE k

\* nameStripRE.FindStringIndex(s): <<0, end>> of the match, or nil (<<>>).
FindStringIndex(s) ==
    LET k == MatchEnd(s, 0) IN IF k = 0 THEN << >> ELSE <<0, k>>

\* The for loop of cleanName.
RECURSIVE StripLoop(_)
StripLoop(name) ==
    LET i == FindStringIndex(name)
    IN  IF i # << >> THEN StripLoop(SliceFrom(name, i[2])) ELSE name

\* cleanName without the length guard on the leading dot.
cleanNameNoGuard(name) ==
    LET n1 == TrimSpace(ToLower(name))
        n2 == StripLoop(n1)
        n3 == Trim(n2, "-")
    IN  IF Len(n3) > 0 /\ n3[1] = "." THEN SliceFrom(n3, 1) ELSE n3

cleanName(name) ==
    LET n1 == TrimSpace(ToLower(name))
        n2 == StripLoop(n1)
        n3 == Trim(n2, "-")
    IN  IF Len(n3) > 1 /\ n3[1] = "." THEN SliceFrom(n3, 1) ELSE n3

\* strings.Split(s, ""): one string per character.
SplitChars(s) == [i \in 1 .. Len(s) |-> << s[i] >>]

\* strings.Join(parts, sep)
RECURSIVE Join(_, _)
Join(parts, sep) ==
    IF Len(parts) = 0 THEN << >>
    ELSE IF Len(parts) = 1 THEN parts[1]
    ELSE parts[1] \o sep \o Join(Tail(parts), sep)

\* The loop of IPv6NibbleFormat: append parts[i] for i = li down to 0.
RECURSIVE ReversedFrom(_, _, _)
ReversedFrom(parts, i, reversed) ==
    IF i < 0 THEN reversed
    ELSE ReversedFrom(parts, i - 1, Append(reversed, parts[i + 1]))

\* IPv6NibbleFormat joining the reversed parts without a separator.
IPv6NibbleFormatNoDots(ip) ==
    LET parts == SplitChars(ip)
        li == Len(parts) - 1
    IN  Join(ReversedFrom(parts, li, << >>), << >>)

IPv6NibbleFormat(ip) ==
    LET parts == SplitChars(ip)
        li == Len(parts) - 1
    IN  Join(ReversedFrom(parts, li, << >>), << "." >>)

(***************************************************************************)
(* The string specification                                                *)
(***************************************************************************)
InitCleanName ==
    /\ str_op = "cleanName"
    /\ cn_in \in Strs
    /\ cn_pc = "call"
    /\ cn_ret = << >>
    /\ nf_in = << >> /\ nf_pc = "idle" /\ nf_ret = << >>
    /\ NetNone /\ CrawlNone

InitNibble ==
    /\ str_op = "IPv6NibbleFormat"
    /\ nf_in \in Strs
    /\ nf_pc = "call"
    /\ nf_ret = << >>
    /\ cn_in = << >> /\ cn_pc = "idle" /\ cn_ret = << >>
    /\ NetNone /\ CrawlNone

CleanNameCall ==
    /\ cn_pc = "call"
    /\ cn_ret' = cleanName(cn_in)
    /\ cn_pc' = "done"
    /\ UNCHANGED <<str_op, cn_in, nf_in, nf_pc, nf_ret>>
    /\ UNCHANGED <<netVars, crawlVars>>

NibbleCall ==
    /\ nf_pc = "call"
    /\ nf_ret' = IPv6NibbleFormat(nf_in)
    /\ nf_pc' = "done"
    /\ UNCHANGED <<str_op, nf_in, cn_in, cn_pc, cn_ret>>
    /\ UNCHANGED <<netVars, crawlVars>>

StrInit == InitCleanName \/ InitNibble

StrNext == CleanNameCall \/ NibbleCall

StrSpec == StrInit /\ [][StrNext]_vars

(***************************************************************************)
(* Properties of the string helpers                                        *)
(***************************************************************************)
\* The steps of the claim, each stated on its own terms.
\* Surrounding characters c removed: what lies between the first and the
\* last character that is not c.
Between(s, c) ==
    LET keep == {i \in 1 .. Len(s) : s[i] # c}
    IN  IF keep = {} THEN << >>
        ELSE SubSeq(s, CHOOSE i \in keep : \A j \in keep : i <= j,
                       CHOOSE i \in keep : \A j \in keep : i >= j)

\* Leading two-character tokens removed one at a time until none leads.
RECURSIVE DropLeadingTokens(_)
DropLeadingTokens(s) ==
    IF Len(s) >= 2 /\ \E t \in nameStripTokens : SubSeq(s, 1, 2) = t
    THEN DropLeadingTokens(SubSeq(s, 3, Len(s)))
    ELSE s

DropOneDot(s) == IF Len(s) > 1 /\ Head(s) = "." THEN Tail(s) ELSE s

ClaimedClean(s) ==
    DropOneDot(Between(DropLeadingTokens(Between(ToLower(s), " ")), "-"))

\* C6: cleanName returns its input trimmed of white space and lower-cased,
\* then without its leading tokens, then trimmed of '-', then without one
\* leading '.' if longer than one character; "." stays ".", and
\* ".x" becomes "x".
C6_CleanNameSteps ==
    cn_pc = "done" =>
        /\ cn_ret = ClaimedClean(cn_in)
        /\ (cn_in = << "." >> => cn_ret = << "." >>)
        /\ (cn_in = << ".", "x" >> => cn_ret = << "x" >>)

\* C6 witness: "2F" is lower-cased and then stripped as a token, and the '.' that
\* then leads is dropped.
C6_Witness ==
    /\ cn_pc = "done"
    /\ cn_in = << "2", "F", ".", "x" >>
    /\ cn_ret = << "x" >>

\* C8 as claimed: the output is the input reversed, of the same length.
C8_NibbleIsReversal ==
    nf_pc = "done" =>
        /\ Len(nf_ret) = Len(nf_in)
        /\ \A i \in 1 .. Len(nf_in) : nf_ret[i] = nf_in[Len(nf_in) + 1 - i]

\* C8 amended: the output is the input's characters in reverse order with a
\* '.' between each two: of length 2n-1 for an input of length n >= 1, the
\* characters at the odd places 2i-1 being the input's (n+1-i)-th, those at
\* the even places '.'; the empty input gives the empty output.
C8_NibbleDotted ==
    nf_pc = "done" =>
        LET n == Len(nf_in)
        IN  /\ Len(nf_ret) = IF n = 0 THEN 0 ELSE 2 * n - 1
            /\ \A i \in 1 .. n : nf_ret[2 * i - 1] = nf_in[n + 1 - i]
            /\ \A i \in 1 .. n - 1 : nf_ret[2 * i] = "."

\* C8 witness: three characters come back reversed with two dots between.
C8_Witness ==
    /\ nf_pc = "done"
    /\ nf_in = << "2", "0", "x" >>
    /\ nf_ret = << "x", ".", "0", ".", "2" >>

(***************************************************************************)
(* crawl                                                                   *)
(***************************************************************************)
\* utils.UniqueAppend(orig, add): orig with add appended unless it is
\* already an element: first-seen order, no duplicates.
UniqueAppend(orig, add) ==
    IF \E i \in 1 .. Len(orig) : orig[i] = add THEN orig ELSE Append(orig, add)

\* q.SendStringGet(u): the queue takes the command unless it is closed, in
\* which case the call returns an error the loop ignores.
Enqueue(u) ==
    IF qClosed
    THEN UNCHANGED <<pending, sent>>
    ELSE /\ pending' = [pending EXCEPT ![u] = @ + 1]
         /\ sent' = [sent EXCEPT ![u] = @ + 1]

\* crawl is called: its locals are set up and the fetcher started.
CrawlInit ==
    /\ pc = "start" /\ err = "nil" /\ results = << >>
    /\ links = << >> /\ names = << >>
    /\ linksFilter = {} /\ filter = {} /\ filterMutex = 0
    /\ pending = [u \in URLs |-> 0] /\ sent = [u \in URLs |-> 0]
    /\ hpc = [h \in Handlers |-> "idle"]
    /\ hurl = [h \in Handlers |-> SeedURL]
    /\ hwork = [h \in Handlers |-> << >>]
    /\ timer = "none" /\ cancelPc = "none"
    /\ qClosed = FALSE /\ qDone = FALSE /\ quit = FALSE
    /\ NetNone /\ StrNone

\* q.SendStringGet(u) of the seed succeeds; the timer is created.
SendSeed ==
    /\ pc = "start"
    /\ pending' = [pending EXCEPT ![SeedURL] = @ + 1]
    /\ sent' = [sent EXCEPT ![SeedURL] = @ + 1]
    /\ timer' = "armed"
    /\ pc' = "loop"
    /\ UNCHANGED <<err, results, links, names, linksFilter, filter, filterMutex,
                   hpc, hurl, hwork, cancelPc, qClosed, qDone, quit>>
    /\ UNCHANGED <<netVars, strVars>>

\* q.SendStringGet(u) of the seed fails: crawl returns the error.
SendSeedFails ==
    /\ pc = "start"
    /\ err' = "error"
    /\ pc' = "returned"
    /\ UNCHANGED <<results, links, names, linksFilter, filter, filterMutex,
                   pending, sent, hpc, hurl, hwork, timer, cancelPc, qClosed,
                   qDone, quit>>
    /\ UNCHANGED <<netVars, strVars>>

\* case l := <-links
LoopLink ==
    /\ pc = "loop"
    /\ links # << >>
    /\ links' = Tail(links)
    /\ IF Head(links) \in linksFilter
       THEN UNCHANGED <<linksFilter, pending, sent>>
       ELSE /\ linksFilter' = linksFilter \cup {Head(links)}
            /\ Enqueue(Head(links))
    /\ UNCHANGED <<pc, err, results, names, filter, filterMutex, hpc, hurl,
                   hwork, timer, cancelPc, qClosed, qDone, quit>>
    /\ UNCHANGED <<netVars, strVars>>

\* The names case appending every name it receives.
LoopNameAppendsAll ==
    /\ pc = "loop"
    /\ names # << >>
    /\ names' = Tail(names)
    /\ results' = Append(results, Head(names))
    /\ UNCHANGED <<pc, err, links, linksFilter, filter, filterMutex, pending,
                   sent, hpc, hurl, hwork, timer, cancelPc, qClosed, qDone, quit>>
    /\ UNCHANGED <<netVars, strVars>>

\* case n := <-names
LoopName ==
    /\ pc = "loop"
    /\ names # << >>
    /\ names' = Tail(names)
    /\ results' = UniqueAppend(results, Head(names))
    /\ UNCHANGED <<pc, err, links, linksFilter, filter, filterMutex, pending,
                   sent, hpc, hurl, hwork, timer, cancelPc, qClosed, qDone, quit>>
    /\ UNCHANGED <<netVars, strVars>>

\* The timer case leaving the loop itself instead of cancelling the queue.
LoopTimerBreaks ==
    /\ pc = "loop"
    /\ timer = "fired"
    /\ timer' = "taken"
    /\ pc' = "returned"
    /\ UNCHANGED <<err, results, links, names, linksFilter, filter, filterMutex,
                   pending, sent, hpc, hurl, hwork, cancelPc, qClosed, qDone,
                   quit>>
    /\ UNCHANGED <<netVars, strVars>>

\* case <-t.C: a goroutine is started to cancel the queue; the loop goes on.
LoopTimer ==
    /\ pc = "loop"
    /\ timer = "fired"
    /\ timer' = "taken"
    /\ cancelPc' = "spawned"
    /\ UNCHANGED <<pc, err, results, links, names, linksFilter, filter,
                   filterMutex, pending, sent, hpc, hurl, hwork, qClosed, qDone,
                   quit>>
    /\ UNCHANGED <<netVars, strVars>>

\* case <-q.Done(): break loop; return results, nil
LoopDone ==
    /\ pc = "loop"
    /\ qDone
    /\ pc' = "returned"
    /\ UNCHANGED <<err, results, links, names, linksFilter, filter, filterMutex,
                   pending, sent, hpc, hurl, hwork, timer, cancelPc, qClosed,
                   qDone, quit>>
    /\ UNCHANGED <<netVars, strVars>>

\* case <-service.Quit(): break loop; return results, nil
LoopQuit ==
    /\ pc = "loop"
    /\ quit
    /\ pc' = "returned"
    /\ UNCHANGED <<err, results, links, names, linksFilter, filter, filterMutex,
                   pending, sent, hpc, hurl, hwork, timer, cancelPc, qClosed,
                   qDone, quit>>
    /\ UNCHANGED <<netVars, strVars>>

\* The 10 seconds of the timer elapse: a value is ready on t.C.
TimerFires ==
    /\ timer = "armed"
    /\ timer' = "fired"
    /\ UNCHANGED <<pc, err, results, links, names, linksFilter, filter,
                   filterMutex, pending, sent, hpc, hurl, hwork, cancelPc,
                   qClosed, qDone, quit>>
    /\ UNCHANGED <<netVars, strVars>>

\* The owning service is stopped.
ServiceQuits ==
    /\ pc \in {"start", "loop"}
    /\ ~quit
    /\ quit' = TRUE
    /\ UNCHANGED <<pc, err, results, links, names, linksFilter, filter,
                   filterMutex, pending, sent, hpc, hurl, hwork, timer, cancelPc,
                   qClosed, qDone>>
    /\ UNCHANGED <<netVars, strVars>>

\* The goroutine runs q.Cancel(): the queue is closed and what waits in it
\* is dropped unprocessed.
CancelCloses ==
    /\ cancelPc = "spawned"
    /\ qClosed' = TRUE
    /\ pending' = [u \in URLs |-> 0]
    /\ cancelPc' = "waiting"
    /\ UNCHANGED <<pc, err, results, links, names, linksFilter, filter,
                   filterMutex, sent, hpc, hurl, hwork, timer, qDone, quit>>
    /\ UNCHANGED <<netVars, strVars>>

\* q.Cancel() returns once the fetcher's workers have ended, the handlers
\* they were running included; q.Done() is closed then.
CancelReturns ==
    /\ cancelPc = "waiting"
    /\ \A h \in Handlers : hpc[h] = "idle"
    /\ qDone' = TRUE
    /\ cancelPc' = "done"
    /\ UNCHANGED <<pc, err, results, links, names, linksFilter, filter,
                   filterMutex, pending, sent, hpc, hurl, hwork, timer, qClosed,
                   quit>>
    /\ UNCHANGED <<netVars, strVars>>

\* The fetcher takes a command off the queue and gets a text/html response:
\* the mux calls the response handler in a worker.
FetchHTML ==
    /\ ~qClosed
    /\ \E u \in URLs : \E h \in Handlers :
          /\ pending[u] > 0
          /\ hpc[h] = "idle"
          /\ pending' = [pending EXCEPT ![u] = @ - 1]
          /\ hpc' = [hpc EXCEPT ![h] = "lock"]
          /\ hurl' = [hurl EXCEPT ![h] = u]
    /\ UNCHANGED <<pc, err, results, links, names, linksFilter, filter,
                   filterMutex, sent, hwork, timer, cancelPc, qClosed, qDone,
                   quit>>
    /\ UNCHANGED <<netVars, strVars>>

\* The fetcher takes a command off the queue and the fetch fails or the
\* response is not text/html: the error handler does nothing.
FetchOther ==
    /\ ~qClosed
    /\ \E u \in URLs :
          /\ pending[u] > 0
          /\ pending' = [pending EXCEPT ![u] = @ - 1]
    /\ UNCHANGED <<pc, err, results, links, names, linksFilter, filter,
                   filterMutex, sent, hpc, hurl, hwork, timer, cancelPc, qClosed,
                   qDone, quit>>
    /\ UNCHANGED <<netVars, strVars>>

\* The handler takes filterMutex and looks its URL up in filter.  A URL
\* seen before makes it return, and so does a page that does not parse or
\* has no matching anchor; the deferred Unlock releases the mutex.
\* Otherwise the URL is recorded and the handler goes through the page's
\* matching anchors, holding the mutex.
HandlerEnter(h) ==
    /\ hpc[h] = "lock"
    /\ filterMutex = 0
    /\ IF hurl[h] \in filter
       THEN /\ hpc' = [hpc EXCEPT ![h] = "idle"]
            /\ UNCHANGED <<filter, filterMutex, hwork>>
       ELSE /\ filter' = filter \cup {hurl[h]}
            /\ \E page \in Pages :
                  IF page = << >>
                  THEN /\ hpc' = [hpc EXCEPT ![h] = "idle"]
                       /\ UNCHANGED <<filterMutex, hwork>>
                  ELSE /\ hpc' = [hpc EXCEPT ![h] = "name"]
                       /\ filterMutex' = h
                       /\ hwork' = [hwork EXCEPT ![h] = page]
    /\ UNCHANGED <<pc, err, results, links, names, linksFilter, pending, sent,
                   hurl, timer, cancelPc, qClosed, qDone, quit>>
    /\ UNCHANGED <<netVars, strVars>>

\* names <- sub: blocks while the channel is full.
HandlerSendName(h) ==
    /\ hpc[h] = "name"
    /\ Len(names) < ChanCap
    /\ names' = Append(names, NameOf(Head(hwork[h])))
    /\ hpc' = [hpc EXCEPT ![h] = "link"]
    /\ UNCHANGED <<pc, err, results, links, linksFilter, filter, filterMutex,
                   pending, sent, hurl, hwork, timer, cancelPc, qClosed, qDone,
                   quit>>
    /\ UNCHANGED <<netVars, strVars>>

\* links <- u.String(): blocks while the channel is full.  After the last
\* anchor the handler returns and the deferred Unlock releases the mutex.
HandlerSendLink(h) ==
    /\ hpc[h] = "link"
    /\ Len(links) < ChanCap
    /\ links' = Append(links, Head(hwork[h]))
    /\ hwork' = [hwork EXCEPT ![h] = Tail(@)]
    /\ IF Tail(hwork[h]) = << >>
       THEN /\ hpc' = [hpc EXCEPT ![h] = "idle"]
            /\ filterMutex' = 0
       ELSE /\ hpc' = [hpc EXCEPT ![h] = "name"]
            /\ UNCHANGED filterMutex
    /\ UNCHANGED <<pc, err, results, names, linksFilter, filter, pending, sent,
                   hurl, timer, cancelPc, qClosed, qDone, quit>>
    /\ UNCHANGED <<netVars, strVars>>

HandlerEnters == \E h \in Handlers : HandlerEnter(h)
HandlerSendsName == \E h \in Handlers : HandlerSendName(h)
HandlerSendsLink == \E h \in Handlers : HandlerSendLink(h)

Init == CrawlInit

Next ==
    \/ SendSeed \/ SendSeedFails
    \/ LoopLink \/ LoopName \/ LoopTimer \/ LoopDone \/ LoopQuit
    \/ TimerFires \/ ServiceQuits \/ CancelCloses \/ CancelReturns
    \/ FetchHTML \/ FetchOther
    \/ HandlerEnters \/ HandlerSendsName \/ HandlerSendsLink

Spec == Init /\ [][Next]_vars

(***************************************************************************)
(* Properties of crawl                                                     *)
(***************************************************************************)
\* The step in which the loop receives the timer's tick.
TookTimer == pc = "loop" /\ timer = "fired" /\ timer' = "taken"

\* The step in which the loop is left.
LeftLoop == pc = "loop" /\ pc' = "returned"

\* C1 as claimed: whichever of the three events the loop receives, the
\* queue's done signal, the service's Quit or the timer's tick, that step
\* ends the loop, and crawl returns the names collected so far and no error.
C1_LoopEndsOnAnyEvent ==
    [][(TookTimer \/ LeftLoop) =>
          (pc' = "returned" /\ err' = "nil" /\ results' = results)]_vars

\* C1 amended: the loop is left only on the queue's done signal or the
\* service's Quit, and crawl then returns the names collected so far and no
\* error; the timer's tick does not end the loop: it only starts the
\* goroutine that will cancel the queue, and the loop keeps receiving.
C1_LoopEndsOnDoneOrQuit ==
    [][/\ LeftLoop => ((qDone \/ quit) /\ err' = "nil" /\ results' = results)
       /\ TookTimer => (pc' = "loop" /\ cancelPc' = "spawned" /\ ~qClosed'
                        /\ ~qDone' /\ results' = results)]_vars

\* C1 witness: the loop ran on after the tick, collected a name and left on
\* the done signal.
C1_Witness ==
    /\ pc = "returned" /\ err = "nil"
    /\ timer = "taken" /\ qDone /\ ~quit
    /\ results # << >>

\* C2: no URL, the seed included, is sent to the fetch queue twice.
C2_SentAtMostOnce == \A u \in URLs : sent[u] <= 1

NoDup(s) == \A i, j \in 1 .. Len(s) : s[i] = s[j] => i = j

\* The step in which the loop receives a name.
TookName == pc = "loop" /\ names # << >> /\ names' = Tail(names)

\* C7: results never holds a name twice, and it changes only when the loop
\* receives a name it does not hold yet, which goes to its end: the order
\* is that of first receipt, nothing is moved or removed.
C7_ResultsFirstSeenOrder ==
    /\ [](NoDup(results))
    /\ [][IF TookName /\ Head(names) \notin Range(results)
          THEN results' = Append(results, Head(names))
          ELSE results' = results]_vars

\* C7 witness: name 1 was received before name 0 and stays before it, while
\* another name waits to be received.
C7_Witness ==
    /\ results = << 1, 0 >>
    /\ pc = "loop"
    /\ names # << >>

\* A handler standing at a send on a full channel.
Blocked(h) ==
    \/ hpc[h] = "name" /\ Len(names) = ChanCap
    \/ hpc[h] = "link" /\ Len(links) = ChanCap

\* C9: once crawl has returned nothing receives from links or names any
\* more, so a handler that then stands at a send on a full channel stays
\* there for ever, holding filterMutex; the claim is that there is none.
C9_NoHandlerBlockedForEver ==
    pc = "returned" => \A h \in Handlers : ~Blocked(h)

=============================================================================
